---- MODULE Spec2Model ----
(***************************************************************************)
(* A model of image-updater (src/src/main.rs, overrides.rs, config.rs):    *)
(* the webhook trigger guard, the update run (sync, extract, resolve,      *)
(* patch, commit, push) executed by concurrently scheduled request         *)
(* handlers on one shared clone, the tag resolver and the override         *)
(* patcher.                                                                *)
(*                                                                         *)
(* Strings that the code inspects character by character (registry tags,   *)
(* allow-tags patterns) are sequences of one-character strings; strings    *)
(* the code only compares for equality are TLA+ strings.                   *)
(***************************************************************************)
EXTENDS Integers, Sequences, FiniteSets, TLC

VARIABLES
    \* ---- the update service (Spec, SpecSeq)
    pc,          \* handler -> position of its request in root/update
    hdr,         \* handler -> X-Secret header of its latest request (Option)
    status,      \* handler -> outcome of its latest request
    cands,       \* handler -> candidates still to process (update: for loop)
    tag,         \* handler -> tag resolved for the current candidate
    doc,         \* handler -> current_overrides read by the patcher
    has_changed, \* handler -> update's has_changed flag
    wc,          \* working copy: override file -> content
    head,        \* tree of the local HEAD commit
    fetchHead,   \* tree of FETCH_HEAD (one per clone, shared by all runs)
    remote,      \* tree of origin's refs/heads/main
    triggers,    \* number of authorized triggers accepted so far
    resolved,    \* handler -> the tags resolved for the candidates of its run so far
    \* history of the latest run of each handler
    extracted,   \* handler -> number of candidates find_candidates returned, -1 before
    attempted,   \* handler -> number of candidates whose resolution was started
    wrote,       \* handler -> number of override-file writes of the run
    gitops,      \* handler -> git operations the run attempted
    nomatch,     \* handler -> the run ended because no listed tag matched
    \* ---- the override patcher alone (SpecPatch)
    pFile,       \* content of the override file
    pCand,       \* the candidate
    pTag,        \* the resolved tag
    pCalls,      \* results of the calls made so far
    \* ---- the tag resolver alone (SpecResolve)
    regTags,     \* the tags the registry holds for the candidate's url
    rAllow,      \* the candidate's allow_tags
    rListed,     \* the order in which the registry listed the tags last (Option)
    rReordered,  \* whether two listings in different orders were resolved
    rOuts,       \* the results of the resolutions made so far
    \* ---- candidate extraction alone (SpecExtract)
    xTree,       \* the directory entries of the repository, in walk order
    xOut         \* the result of find_candidates (Option)

svars == <<pc, hdr, status, cands, tag, doc, has_changed, resolved, wc, head, fetchHead,
           remote, triggers, extracted, attempted, wrote, gitops, nomatch>>
pvars == <<pFile, pCand, pTag, pCalls>>
rvars == <<regTags, rAllow, rListed, rReordered, rOuts>>
xvars == <<xTree, xOut>>
vars == <<svars, pvars, rvars, xvars>>

(***************************************************************************)
(* Bounds                                                                  *)
(***************************************************************************)
MaxTriggers == 2
MaxTags == 3
MaxLines == 2
MaxPatchCalls == 2
MaxFiles == 2

(***************************************************************************)
(* Characters and strings                                                  *)
(***************************************************************************)
Digits == {"0", "1", "2", "3", "4", "5", "6", "7", "8", "9"}

\* The characters used, in the order of their code points.
CharOrder ==
    <<"-", ".", "0", "1", "2", "3", "4", "5", "6", "7", "8", "9",
      "a", "e", "l", "s", "t", "v", "x">>

Code(c) == CHOOSE i \in 1..Len(CharOrder) : CharOrder[i] = c

DigitVal(c) == Code(c) - Code("0")

Ok(v) == [ok |-> TRUE, val |-> v]
Err(e) == [ok |-> FALSE, val |-> e]

Some(v) == <<v>>
None == <<>>

RECURSIVE Perms(_)
\* every order in which the elements of a finite set can be listed
Perms(S) ==
    IF S = {} THEN {<<>>}
    ELSE UNION {{<<x>> \o p : p \in Perms(S \ {x})} : x \in S}

(***************************************************************************)
(* Regular expressions (the regex crate, as get_latest_tag_for_candidate   *)
(* uses it).  A pattern is a sequence of tokens: "regexp:" (the legacy     *)
(* prefix), "^", "$", "\\d", "+", "(" and literal characters.              *)
(***************************************************************************)
RECURSIVE trim_start_matches(_, _)
\* str::trim_start_matches: the prefix is removed repeatedly
trim_start_matches(toks, prefix) ==
    IF Len(toks) > 0 /\ toks[1] = prefix
    THEN trim_start_matches(Tail(toks), prefix)
    ELSE toks

RegexAtom(tok, plus) ==
    CASE tok = "^"   -> [kind |-> "start", cls |-> {}, plus |-> FALSE]
      [] tok = "$"   -> [kind |-> "end", cls |-> {}, plus |-> FALSE]
      [] tok = "\\d" -> [kind |-> "char", cls |-> Digits, plus |-> plus]
      [] tok = "\\." -> [kind |-> "char", cls |-> {"."}, plus |-> plus]
      [] OTHER       -> [kind |-> "char", cls |-> {tok}, plus |-> plus]

RECURSIVE RegexAtoms(_)
RegexAtoms(toks) ==
    IF toks = <<>> THEN <<>>
    ELSE IF Len(toks) >= 2 /\ toks[2] = "+"
    THEN <<RegexAtom(toks[1], TRUE)>> \o RegexAtoms(SubSeq(toks, 3, Len(toks)))
    ELSE <<RegexAtom(toks[1], FALSE)>> \o RegexAtoms(Tail(toks))

\* Regex::new: an unclosed group, or a repetition operator with nothing to
\* repeat, is a syntax error.
Regex_new(toks) ==
    IF \/ \E i \in 1..Len(toks) : toks[i] \in {"(", "regexp:"}
       \/ Len(toks) > 0 /\ toks[1] = "+"
       \/ \E i \in 1..(Len(toks) - 1) : toks[i] \in {"+", "^", "$"} /\ toks[i + 1] = "+"
    THEN Err("regex syntax")
    ELSE Ok(RegexAtoms(toks))

RECURSIVE MatchEnds(_, _, _, _)
\* the positions at which a match of atoms k.. that starts at position i of s
\* can end (the position after its last character)
MatchEnds(atoms, k, s, i) ==
    IF k > Len(atoms) THEN {i}
    ELSE LET a == atoms[k] IN
         CASE a.kind = "start" ->
                IF i = 1 THEN MatchEnds(atoms, k + 1, s, i) ELSE {}
           [] a.kind = "end" ->
                IF i = Len(s) + 1 THEN MatchEnds(atoms, k + 1, s, i) ELSE {}
           [] OTHER ->
                LET stops == IF a.plus
                             THEN {j \in (i + 1)..(Len(s) + 1) :
                                      \A m \in i..(j - 1) : s[m] \in a.cls}
                             ELSE {j \in {i + 1} : i <= Len(s) /\ s[i] \in a.cls}
                IN UNION {MatchEnds(atoms, k + 1, s, j) : j \in stops}

\* Regex::is_match: the pattern matches somewhere in s
is_match(atoms, s) == \E i \in 1..(Len(s) + 1) : MatchEnds(atoms, 1, s, i) # {}

(***************************************************************************)
(* alphanumeric_sort::compare_path on two tags (no path separator occurs   *)
(* in a tag, so this is the crate's string comparison): runs of digits     *)
(* compare by value, then by their number of leading zeros; other          *)
(* characters by code point.  The result is "Less", "Equal" or "Greater".  *)
(***************************************************************************)
RECURSIVE DigitRunLen(_)
DigitRunLen(s) ==
    IF s # <<>> /\ Head(s) \in Digits THEN 1 + DigitRunLen(Tail(s)) ELSE 0

RECURSIVE LeadingZeros(_)
LeadingZeros(run) ==
    IF run # <<>> /\ Head(run) = "0" THEN 1 + LeadingZeros(Tail(run)) ELSE 0

RECURSIVE NumVal(_)
NumVal(run) ==
    IF run = <<>> THEN 0
    ELSE 10 * NumVal(SubSeq(run, 1, Len(run) - 1)) + DigitVal(run[Len(run)])

IntCmp(m, n) == IF m < n THEN "Less" ELSE IF m > n THEN "Greater" ELSE "Equal"

RECURSIVE compare_by_value(_, _)
\* a comparison that ranks runs of digits by value alone
compare_by_value(a, b) ==
    IF a = <<>> THEN (IF b = <<>> THEN "Equal" ELSE "Less")
    ELSE IF b = <<>> THEN "Greater"
    ELSE IF Head(a) \in Digits /\ Head(b) \in Digits
    THEN LET la == DigitRunLen(a)
             lb == DigitRunLen(b)
             ordering == IntCmp(NumVal(SubSeq(a, 1, la)), NumVal(SubSeq(b, 1, lb)))
         IN IF ordering # "Equal" THEN ordering
            ELSE compare_by_value(SubSeq(a, la + 1, Len(a)), SubSeq(b, lb + 1, Len(b)))
    ELSE IF Head(a) = Head(b) THEN compare_by_value(Tail(a), Tail(b))
    ELSE IntCmp(Code(Head(a)), Code(Head(b)))

RECURSIVE compare_lexical(_, _)
\* a comparison of the characters alone (str::cmp)
compare_lexical(a, b) ==
    IF a = <<>> THEN (IF b = <<>> THEN "Equal" ELSE "Less")
    ELSE IF b = <<>> THEN "Greater"
    ELSE IF Head(a) = Head(b) THEN compare_lexical(Tail(a), Tail(b))
    ELSE IntCmp(Code(Head(a)), Code(Head(b)))

RECURSIVE compare_path(_, _)
compare_path(a, b) ==
    IF a = <<>> THEN (IF b = <<>> THEN "Equal" ELSE "Less")
    ELSE IF b = <<>> THEN "Greater"
    ELSE IF Head(a) \in Digits /\ Head(b) \in Digits
    THEN LET la == DigitRunLen(a)
             lb == DigitRunLen(b)
             ra == SubSeq(a, 1, la)
             rb == SubSeq(b, 1, lb)
             ordering == IntCmp(NumVal(ra), NumVal(rb))
             lc == IntCmp(LeadingZeros(ra), LeadingZeros(rb))
         IN IF ordering # "Equal" THEN ordering
            ELSE IF lc # "Equal" THEN lc
            ELSE compare_path(SubSeq(a, la + 1, Len(a)), SubSeq(b, lb + 1, Len(b)))
    ELSE IF Head(a) = Head(b) THEN compare_path(Tail(a), Tail(b))
    ELSE IntCmp(Code(Head(a)), Code(Head(b)))

(***************************************************************************)
(* slice::sort_by is a stable sort: elements that compare equal keep the   *)
(* order of the input.                                                     *)
(***************************************************************************)
RECURSIVE InsertSorted(_, _)
InsertSorted(sorted, x) ==
    IF sorted = <<>> THEN <<x>>
    ELSE LET n == Len(sorted) IN
         IF compare_path(sorted[n], x) = "Greater"
         THEN InsertSorted(SubSeq(sorted, 1, n - 1), x) \o <<sorted[n]>>
         ELSE sorted \o <<x>>

RECURSIVE sort_by(_)
sort_by(tags) ==
    IF tags = <<>> THEN <<>>
    ELSE InsertSorted(sort_by(SubSeq(tags, 1, Len(tags) - 1)), tags[Len(tags)])

(***************************************************************************)
(* get_latest_tag_for_candidate, given what the registry answers: an error *)
(* or the list of the tags of the reference.                               *)
(***************************************************************************)
tags_filter(atoms, listed) == SelectSeq(listed, LAMBDA name : is_match(atoms, name))

get_latest_tag_no_filter(allow_tags, listing) ==
    LET tags_re == Regex_new(trim_start_matches(allow_tags, "regexp:")) IN
    IF ~tags_re.ok THEN tags_re
    ELSE IF ~listing.ok THEN listing
    ELSE LET tags == sort_by(listing.val) IN
         IF tags = <<>> THEN Err("No tags matched the regex")
         ELSE Ok(tags[Len(tags)])

get_latest_tag_or_default(allow_tags, listing) ==
    LET tags_re == Regex_new(trim_start_matches(allow_tags, "regexp:")) IN
    IF ~tags_re.ok THEN tags_re
    ELSE IF ~listing.ok THEN listing
    ELSE LET tags == sort_by(tags_filter(tags_re.val, listing.val)) IN
         IF tags = <<>> THEN Ok(<<"l", "a", "t", "e", "s", "t">>)
         ELSE Ok(tags[Len(tags)])

get_latest_tag_for_candidate(allow_tags, listing) ==
    LET tags_re == Regex_new(trim_start_matches(allow_tags, "regexp:")) IN
    IF ~tags_re.ok THEN tags_re
    ELSE IF ~listing.ok THEN listing
    ELSE LET tags == sort_by(tags_filter(tags_re.val, listing.val)) IN
         IF tags = <<>> THEN Err("No tags matched the regex")
         ELSE Ok(tags[Len(tags)])

(***************************************************************************)
(* The tag resolver alone: the registry holds a set of tags and lists them *)
(* in any order, or fails.                                                 *)
(***************************************************************************)
TagUniverse ==
    { <<"v", "1">>, <<"v", "2">>, <<"v", "1", "0">>, <<"v", "0", "1">>,
      <<"x", "v", "1">>, <<"v", "1", "x">>, <<"l", "a", "t", "e", "s", "t">>,
      <<"v", "1", ".", "2">>, <<"v", "1", ".", "1", "0">>, <<"v", "1", ".", "9">> }

AllowTagsUniverse ==
    { <<"regexp:", "^", "v", "\\d", "+", "$">>,
      <<"v", "\\d", "+">>,
      <<"regexp:", "regexp:", "\\d", "$">>,
      <<"^", "v", "\\d", "+", "\\.", "\\d", "+", "$">>,
      <<"(">> }

NoSvars ==
    /\ pc = <<>> /\ hdr = <<>> /\ status = <<>> /\ cands = <<>> /\ tag = <<>>
    /\ doc = <<>> /\ has_changed = <<>> /\ wc = <<>> /\ head = <<>>
    /\ fetchHead = <<>> /\ remote = <<>> /\ triggers = 0
    /\ extracted = <<>> /\ attempted = <<>> /\ wrote = <<>> /\ gitops = <<>>
    /\ nomatch = <<>> /\ resolved = <<>>

NoPvars == pFile = <<>> /\ pCand = <<>> /\ pTag = <<>> /\ pCalls = <<>>

NoRvars ==
    /\ regTags = {} /\ rAllow = <<>> /\ rListed = None /\ rReordered = FALSE
    /\ rOuts = {}

NoXvars == xTree = <<>> /\ xOut = None

InitResolve ==
    /\ regTags \in {S \in SUBSET TagUniverse : Cardinality(S) <= MaxTags}
    /\ rAllow \in AllowTagsUniverse
    /\ rListed = None
    /\ rReordered = FALSE
    /\ rOuts = {}
    /\ NoSvars /\ NoPvars /\ NoXvars

Resolve(listing) ==
    /\ rOuts' = rOuts \cup {get_latest_tag_for_candidate(rAllow, listing)}
    /\ rListed' = IF listing.ok THEN Some(listing.val) ELSE rListed
    /\ rReordered' = (rReordered \/ (listing.ok /\ rListed \notin {None, Some(listing.val)}))
    /\ UNCHANGED <<regTags, rAllow, svars, pvars, xvars>>

RegistryLists == \E order \in Perms(regTags) : Resolve(Ok(order))

RegistryFails == Resolve(Err("registry"))

NextResolve == RegistryLists \/ RegistryFails

SpecResolve == InitResolve /\ [][NextResolve]_vars

(***************************************************************************)
(* Claims about the tag resolver (SpecResolve)                             *)
(***************************************************************************)
Compiled == Regex_new(trim_start_matches(rAllow, "regexp:"))

\* the pattern matches s over its whole length
FullMatch(atoms, s) == (Len(s) + 1) \in MatchEnds(atoms, 1, s, 1)

Retained == {t \in regTags : Compiled.ok /\ is_match(Compiled.val, t)}

\* C9 as stated: every tag the resolver returns matches the allow-tags
\* pattern over its whole length.
C9_ReturnedTagMatchesEntirely ==
    \A o \in rOuts : o.ok => FullMatch(Compiled.val, o.val)

\* C9 amended: every tag the resolver returns is a tag of the registry in
\* which the pattern (prefix stripped) matches somewhere, and the resolver
\* fails exactly when the pattern does not compile, the registry fails or no
\* registry tag contains a match.
C9_ReturnedTagContainsMatch ==
    \A o \in rOuts :
        /\ o.ok => (Compiled.ok /\ o.val \in Retained)
        /\ (~o.ok /\ o.val = "No tags matched the regex") => Retained = {}

\* a tag that contains a match only as a proper substring has been returned
C9_Witness ==
    \E o \in rOuts :
        /\ o.ok
        /\ is_match(Compiled.val, o.val)
        /\ ~FullMatch(Compiled.val, o.val)

\* C10: all resolutions of one tag set under one pattern give the same
\* result, whatever the order in which the registry lists the tags.
C10_ResultIndependentOfOrder ==
    Cardinality(rOuts \ {Err("registry")}) <= 1

\* two listings in different orders were resolved, and two retained tags
\* have digit runs of equal value (v1, v01)
C10_Witness ==
    /\ rReordered
    /\ {<<"v", "1">>, <<"v", "0", "1">>} \subseteq Retained
    /\ \E o \in rOuts : o.ok

\* C11: the tag the resolver returns is a maximum of the retained tags under
\* the comparison that ranks runs of digits as numbers: no retained tag is
\* greater; of v1.2, v1.10 and v1.9 it returns v1.10, and it never returns
\* v2 when v10 is retained.
C11_ReturnsNumericMaximum ==
    \A o \in rOuts :
        o.ok =>
            /\ \A t \in Retained : compare_path(t, o.val) # "Greater"
            /\ Retained = {<<"v", "1", ".", "2">>, <<"v", "1", ".", "1", "0">>,
                           <<"v", "1", ".", "9">>}
                  => o.val = <<"v", "1", ".", "1", "0">>
            /\ {<<"v", "2">>, <<"v", "1", "0">>} \subseteq Retained
                  => o.val # <<"v", "2">>

\* v1.10 was returned for the registry tags v1.2, v1.10 and v1.9
C11_Witness ==
    /\ regTags = {<<"v", "1", ".", "2">>, <<"v", "1", ".", "1", "0">>,
                  <<"v", "1", ".", "9">>}
    /\ Retained = regTags
    /\ Ok(<<"v", "1", ".", "1", "0">>) \in rOuts

(***************************************************************************)
(* Override files (overrides.rs).  The text of a file is a sequence of     *)
(* lines: a parameter entry of helm.parameters, a comment or blank line    *)
(* (formatting that parsing drops), or a line that makes the file fail to  *)
(* deserialize as Overrides.  A document is the sequence of its Parameter  *)
(* entries.  A file is None (it does not exist) or Some(text).             *)
(***************************************************************************)
Parameter(name, value, forcestring) ==
    [name |-> name, value |-> value, forcestring |-> forcestring]

ParamLine(p) ==
    [kind |-> "param", name |-> p.name, value |-> p.value,
     forcestring |-> p.forcestring]
CommentLine ==
    [kind |-> "comment", name |-> "", value |-> <<>>, forcestring |-> FALSE]
BadLine ==
    [kind |-> "bad", name |-> "", value |-> <<>>, forcestring |-> FALSE]

Overrides_default == <<>>

\* serde_yaml::from_str::<Overrides>
from_str(text) ==
    IF \E i \in 1..Len(text) : text[i].kind = "bad"
    THEN Err("yaml")
    ELSE LET params == SelectSeq(text, LAMBDA l : l.kind = "param") IN
         Ok([i \in 1..Len(params) |->
                Parameter(params[i].name, params[i].value, params[i].forcestring)])

\* serde_yaml::to_string(&Overrides)
to_string(overrides) == [i \in 1..Len(overrides) |-> ParamLine(overrides[i])]

\* update_tag_for_candidate, lines 153-157
load_overrides(file) ==
    IF file # None THEN from_str(file[1]) ELSE Ok(Overrides_default)

Matches(parameters, candidate, t) ==
    parameters.name = candidate.helm_image_tag /\ parameters.value # t

apply_tag_no_value_check(overrides, candidate, t) ==
    [overrides |-> [i \in 1..Len(overrides) |->
                      IF overrides[i].name = candidate.helm_image_tag
                      THEN [overrides[i] EXCEPT !.value = t]
                      ELSE overrides[i]],
     has_changed |-> \E i \in 1..Len(overrides) :
                        overrides[i].name = candidate.helm_image_tag]

apply_tag_insert_missing(overrides, candidate, t) ==
    IF \E i \in 1..Len(overrides) : overrides[i].name = candidate.helm_image_tag
    THEN [overrides |-> [i \in 1..Len(overrides) |->
                           IF Matches(overrides[i], candidate, t)
                           THEN [overrides[i] EXCEPT !.value = t]
                           ELSE overrides[i]],
          has_changed |-> \E i \in 1..Len(overrides) :
                             Matches(overrides[i], candidate, t)]
    ELSE [overrides |-> Append(overrides, Parameter(candidate.helm_image_tag, t, FALSE)),
          has_changed |-> TRUE]

apply_tag_first_only(overrides, candidate, t) ==
    LET hits == {i \in 1..Len(overrides) : Matches(overrides[i], candidate, t)}
        first == IF hits = {} THEN 0 ELSE CHOOSE i \in hits : \A j \in hits : i <= j
    IN [overrides |-> [i \in 1..Len(overrides) |->
                         IF i = first THEN [overrides[i] EXCEPT !.value = t]
                         ELSE overrides[i]],
        has_changed |-> hits # {}]

apply_tag_new_parameter(overrides, candidate, t) ==
    [overrides |-> [i \in 1..Len(overrides) |->
                      IF Matches(overrides[i], candidate, t)
                      THEN Parameter(overrides[i].name, t, FALSE)
                      ELSE overrides[i]],
     has_changed |-> \E i \in 1..Len(overrides) :
                        Matches(overrides[i], candidate, t)]

\* update_tag_for_candidate, lines 159-167: the loop over the parameters
apply_tag(overrides, candidate, t) ==
    [overrides |-> [i \in 1..Len(overrides) |->
                      IF Matches(overrides[i], candidate, t)
                      THEN [overrides[i] EXCEPT !.value = t]
                      ELSE overrides[i]],
     has_changed |-> \E i \in 1..Len(overrides) :
                        Matches(overrides[i], candidate, t)]

\* update_tag_for_candidate, lines 169-173: the file after the call, and
\* whether it was written
store_overrides(file, applied) ==
    [file |-> IF applied.has_changed THEN Some(to_string(applied.overrides)) ELSE file,
     wrote |-> applied.has_changed]

\* update_tag_for_candidate: Result<bool>, the file after the call and
\* whether std::fs::write was called
update_tag_for_candidate(file, candidate, t) ==
    LET current_overrides == load_overrides(file) IN
    IF ~current_overrides.ok
    THEN [ok |-> FALSE, has_changed |-> FALSE, file |-> file, wrote |-> FALSE]
    ELSE LET applied == apply_tag(current_overrides.val, candidate, t)
             stored == store_overrides(file, applied)
         IN [ok |-> TRUE, has_changed |-> applied.has_changed,
             file |-> stored.file, wrote |-> stored.wrote]

Candidate(app_name, url, allow_tags, helm_image_tag, path) ==
    [app_name |-> app_name, url |-> url, allow_tags |-> allow_tags,
     helm_image_tag |-> helm_image_tag, path |-> path]

(***************************************************************************)
(* The override patcher alone: a file, a candidate and a tag; the patcher  *)
(* is called repeatedly, and the resolved tag may change between calls.    *)
(***************************************************************************)
PatchTags == {<<"v", "1">>, <<"v", "2">>}
ParamNames == {"image.tag", "sidecar.tag"}

LineUniverse ==
    {ParamLine(Parameter(n, v, f)) : n \in ParamNames, v \in PatchTags, f \in BOOLEAN}
        \cup {CommentLine, BadLine}

TextUniverse == UNION {[1..n -> LineUniverse] : n \in 0..MaxLines}

FileUniverse == {None} \cup {Some(text) : text \in TextUniverse}

PatchCandidates ==
    {Candidate("api", "ghcr.io/org/api", <<"v", "\\d", "+">>, n, "apps/api") :
        n \in ParamNames}

InitPatch ==
    /\ pFile \in FileUniverse
    /\ pCand \in PatchCandidates
    /\ pTag \in PatchTags
    /\ pCalls = <<>>
    /\ NoSvars /\ NoRvars /\ NoXvars

PatchCall ==
    /\ Len(pCalls) < MaxPatchCalls
    /\ LET r == update_tag_for_candidate(pFile, pCand, pTag) IN
        /\ pFile' = r.file
        /\ pCalls' = Append(pCalls,
                            [tag |-> pTag, before |-> pFile, after |-> r.file,
                             ok |-> r.ok, has_changed |-> r.has_changed,
                             wrote |-> r.wrote])
    /\ UNCHANGED <<pCand, pTag, svars, rvars, xvars>>

NewTag ==
    /\ Len(pCalls) < MaxPatchCalls
    /\ pTag' \in PatchTags \ {pTag}
    /\ UNCHANGED <<pFile, pCand, pCalls, svars, rvars, xvars>>

NextPatch == PatchCall \/ NewTag

SpecPatch == InitPatch /\ [][NextPatch]_vars

(***************************************************************************)
(* Claims about the override patcher (SpecPatch)                           *)
(***************************************************************************)
\* C7: a call of the patcher that follows a successful call with the same
\* candidate and the same tag returns changed = false, writes nothing and
\* leaves the file as the first call left it.
C7_PatchIdempotent ==
    \A i \in 1..(Len(pCalls) - 1) :
        (pCalls[i].ok /\ pCalls[i + 1].tag = pCalls[i].tag) =>
            /\ pCalls[i + 1].ok
            /\ ~pCalls[i + 1].has_changed
            /\ ~pCalls[i + 1].wrote
            /\ pCalls[i + 1].after = pCalls[i].after

\* the first of two calls with the same tag rewrote the file
C7_Witness ==
    /\ Len(pCalls) >= 2
    /\ pCalls[1].ok /\ pCalls[1].has_changed /\ pCalls[1].wrote
    /\ pCalls[2].tag = pCalls[1].tag
    /\ pCalls[1].after # pCalls[1].before

NoEntryNamed(file, candidate) ==
    \/ file = None
    \/ /\ from_str(file[1]).ok
       /\ \A i \in 1..Len(from_str(file[1]).val) :
             from_str(file[1]).val[i].name # candidate.helm_image_tag

\* C8: when no entry of the override document is named as the candidate's
\* override parameter (or the file does not exist), the patcher returns
\* changed = false and neither writes nor creates the file, so the entries
\* stay as they were.
C8_NeverInsertsWritesOnlyOnChange ==
    \A i \in 1..Len(pCalls) :
        /\ NoEntryNamed(pCalls[i].before, pCand) =>
              /\ pCalls[i].ok
              /\ ~pCalls[i].has_changed
              /\ ~pCalls[i].wrote
              /\ pCalls[i].after = pCalls[i].before
        /\ pCalls[i].wrote <=> (pCalls[i].ok /\ pCalls[i].has_changed)
        /\ ~pCalls[i].wrote => pCalls[i].after = pCalls[i].before

\* the patcher was called on an existing file with entries none of which is
\* named as the candidate's parameter
C8_Witness ==
    /\ Len(pCalls) >= 1
    /\ NoEntryNamed(pCalls[1].before, pCand)
    /\ pCalls[1].before # None
    /\ Len(from_str(pCalls[1].before[1]).val) >= 1

\* the entries of a file as the patcher loads them
Entries(file) == load_overrides(file).val

\* C15: after a successful call every entry named as the candidate's
\* override parameter holds the resolved tag, also when several entries bear
\* that name, and changed is true exactly when one of them held another
\* value before the call.
C15_UpdatesAllMatches ==
    \A i \in 1..Len(pCalls) :
        pCalls[i].ok =>
            /\ \A k \in 1..Len(Entries(pCalls[i].after)) :
                  Entries(pCalls[i].after)[k].name = pCand.helm_image_tag
                      => Entries(pCalls[i].after)[k].value = pCalls[i].tag
            /\ pCalls[i].has_changed <=>
                  \E k \in 1..Len(Entries(pCalls[i].before)) :
                      /\ Entries(pCalls[i].before)[k].name = pCand.helm_image_tag
                      /\ Entries(pCalls[i].before)[k].value # pCalls[i].tag

\* a call changed a file in which two entries bear the parameter's name and
\* both held another value
C15_Witness ==
    /\ Len(pCalls) >= 1
    /\ pCalls[1].ok /\ pCalls[1].has_changed
    /\ Len(Entries(pCalls[1].before)) = 2
    /\ \A k \in 1..2 :
          /\ Entries(pCalls[1].before)[k].name = pCand.helm_image_tag
          /\ Entries(pCalls[1].before)[k].value # pCalls[1].tag

\* C16: a successful call leaves the number and order of the entries, the
\* name and the forcestring flag of every entry, and the value of every
\* entry that is not named as the candidate's override parameter.
C16_PatchChangesOnlyMatchingValues ==
    \A i \in 1..Len(pCalls) :
        pCalls[i].ok =>
            /\ Len(Entries(pCalls[i].after)) = Len(Entries(pCalls[i].before))
            /\ \A k \in 1..Len(Entries(pCalls[i].before)) :
                  /\ Entries(pCalls[i].after)[k].name = Entries(pCalls[i].before)[k].name
                  /\ Entries(pCalls[i].after)[k].forcestring
                        = Entries(pCalls[i].before)[k].forcestring
                  /\ Entries(pCalls[i].before)[k].name # pCand.helm_image_tag
                        => Entries(pCalls[i].after)[k].value
                              = Entries(pCalls[i].before)[k].value

\* a call rewrote a file that holds an entry to update, with forcestring
\* set, and an entry of another name
C16_Witness ==
    /\ Len(pCalls) >= 1
    /\ pCalls[1].ok /\ pCalls[1].wrote
    /\ Len(Entries(pCalls[1].before)) = 2
    /\ \E k \in 1..2 :
          /\ Entries(pCalls[1].before)[k].name = pCand.helm_image_tag
          /\ Entries(pCalls[1].before)[k].forcestring
    /\ \E k \in 1..2 : Entries(pCalls[1].before)[k].name # pCand.helm_image_tag

(***************************************************************************)
(* Candidate extraction: find_candidates, get_candidates_from,             *)
(* is_argo_app.  A directory entry has a name ending, is a regular file or *)
(* not, and has a content: an error when it cannot be read as UTF-8 text,  *)
(* or its YAML documents.  A document is text that parses as a mapping     *)
(* from strings to values or does not.  A serde_yaml Value is a string, a  *)
(* mapping or something else (here a number).  An annotation key is        *)
(* written as the pair of the image name in it ("" for the image-list key) *)
(* and the rest.  The image-list is a sequence of tokens: " ", ",", "=",   *)
(* and pieces of names and urls.                                           *)
(***************************************************************************)
Str(x) == [t |-> "str", v |-> x]
Map(f) == [t |-> "map", v |-> f]
Num(n) == [t |-> "num", v |-> n]

\* the mapping that holds the given <<key, value>> pairs
MapOf(pairs) ==
    [k \in {q[1] : q \in pairs} |-> (CHOOSE q \in pairs : q[1] = k)[2]]

\* Mapping::get / HashMap::get
get(mapping, key) ==
    IF key \in DOMAIN mapping THEN Some(mapping[key]) ELSE None

\* Option<&Value>::and_then(Value::as_str)
as_str(value) ==
    IF value # None /\ value[1].t = "str" THEN Some(value[1].v) ELSE None

\* Option<&Value>::and_then(Value::as_mapping)
as_mapping(value) ==
    IF value # None /\ value[1].t = "map" THEN Some(value[1].v) ELSE None

ImageListKey == <<"", "image-list">>
AnnotationKey(name, rest) == <<name, rest>>

is_argo_app(value) ==
    /\ as_str(get(value, "kind")) = Some("Application")
    /\ as_str(get(value, "apiVersion")) = Some("argoproj.io/v1alpha1")

RECURSIVE split(_, _)
\* str::split: the pieces between the separators
split(toks, sep) ==
    IF \A i \in 1..Len(toks) : toks[i] # sep THEN <<toks>>
    ELSE LET i == CHOOSE i \in 1..Len(toks) :
                     toks[i] = sep /\ \A j \in 1..(i - 1) : toks[j] # sep
         IN <<SubSeq(toks, 1, i - 1)>> \o split(SubSeq(toks, i + 1, Len(toks)), sep)

RECURSIVE trim(_)
\* str::trim
trim(toks) ==
    IF toks # <<>> /\ Head(toks) = " " THEN trim(Tail(toks))
    ELSE IF toks # <<>> /\ toks[Len(toks)] = " "
    THEN trim(SubSeq(toks, 1, Len(toks) - 1))
    ELSE toks

\* str::split_once: the text before and after the first separator (an image
\* name is one token or empty)
split_once(toks, sep) ==
    IF \A i \in 1..Len(toks) : toks[i] # sep THEN None
    ELSE LET i == CHOOSE i \in 1..Len(toks) :
                     toks[i] = sep /\ \A j \in 1..(i - 1) : toks[j] # sep
         IN Some([name |-> IF i = 1 THEN "" ELSE toks[1],
                  url |-> SubSeq(toks, i + 1, Len(toks))])

RECURSIVE images_loop_stops_at_bad_image(_, _, _, _)
images_loop_stops_at_bad_image(images, annotations, app_name, path) ==
    IF images = <<>> THEN <<>>
    ELSE LET image == split_once(trim(Head(images)), "=")
             allow_tags == IF image = None THEN None
                           ELSE as_str(get(annotations,
                                           AnnotationKey(image[1].name, "allow-tags")))
             helm_image_tag == IF image = None THEN None
                               ELSE as_str(get(annotations,
                                               AnnotationKey(image[1].name, "helm.image-tag")))
         IN IF image = None \/ allow_tags = None \/ helm_image_tag = None
            THEN <<>>
            ELSE <<Candidate(app_name, image[1].url, allow_tags[1],
                             helm_image_tag[1], path)>>
                    \o images_loop_stops_at_bad_image(Tail(images), annotations,
                                                      app_name, path)

RECURSIVE images_loop(_, _, _, _)
\* get_candidates_from, lines 289-323: for image in images
images_loop(images, annotations, app_name, path) ==
    IF images = <<>> THEN <<>>
    ELSE LET image == split_once(trim(Head(images)), "=")
             allow_tags == IF image = None THEN None
                           ELSE as_str(get(annotations,
                                           AnnotationKey(image[1].name, "allow-tags")))
             helm_image_tag == IF image = None THEN None
                               ELSE as_str(get(annotations,
                                               AnnotationKey(image[1].name, "helm.image-tag")))
             rest == images_loop(Tail(images), annotations, app_name, path)
         IN IF image = None \/ allow_tags = None \/ helm_image_tag = None
            THEN rest
            ELSE <<Candidate(app_name, image[1].url, allow_tags[1],
                             helm_image_tag[1], path)>> \o rest

\* get_candidates_from, lines 250-323: the candidates of one document
candidates_of_document(document) ==
    IF ~document.parses THEN <<>>
    ELSE LET parsed == document.map
             metadata == as_mapping(get(parsed, "metadata"))
             annotations == IF metadata = None THEN None
                            ELSE as_mapping(get(metadata[1], "annotations"))
             image_list == IF annotations = None THEN None
                           ELSE as_str(get(annotations[1], ImageListKey))
             spec == as_mapping(get(parsed, "spec"))
             source == IF spec = None THEN None
                       ELSE as_mapping(get(spec[1], "source"))
             path == IF source = None THEN None ELSE as_str(get(source[1], "path"))
             app_name == IF metadata = None THEN None
                         ELSE as_str(get(metadata[1], "name"))
         IN IF \/ ~is_argo_app(parsed)
               \/ metadata = None \/ annotations = None \/ image_list = None
               \/ spec = None \/ source = None \/ path = None \/ app_name = None
            THEN <<>>
            ELSE images_loop(split(image_list[1], ","), annotations[1],
                             app_name[1], path[1])

RECURSIVE documents_loop(_)
\* get_candidates_from, lines 248-326: for document in documents
documents_loop(documents) ==
    IF documents = <<>> THEN <<>>
    ELSE candidates_of_document(Head(documents)) \o documents_loop(Tail(documents))

get_candidates_from_fails_on_parse_error(content) ==
    IF ~content.ok THEN content
    ELSE IF \E i \in 1..Len(content.val) : ~content.val[i].parses
    THEN Err("yaml")
    ELSE Ok(documents_loop(content.val))

\* get_candidates_from: read_to_string(file_path)? and the documents
get_candidates_from(content) ==
    IF ~content.ok THEN content
    ELSE Ok(documents_loop(content.val))

RECURSIVE find_candidates(_)
\* find_candidates: the walk over the directory entries
find_candidates(entries) ==
    IF entries = <<>> THEN Ok(<<>>)
    ELSE LET entry == Head(entries)
             rest == find_candidates(Tail(entries))
         IN IF ~entry.is_file \/ entry.ends_with \notin {".yaml", ".yml"}
            THEN rest
            ELSE LET candidates_from_file == get_candidates_from(entry.content) IN
                 IF ~candidates_from_file.ok THEN candidates_from_file
                 ELSE IF ~rest.ok THEN rest
                 ELSE Ok(candidates_from_file.val \o rest.val)

\* a directory entry and a document
Entry(ends_with, is_file, content) ==
    [ends_with |-> ends_with, is_file |-> is_file, content |-> content]

Unparsable == [parses |-> FALSE, map |-> <<>>]
Document(pairs) == [parses |-> TRUE, map |-> MapOf(pairs)]

\* an Argo CD Application manifest with the given name value, annotations
\* and source path
Application(name, annotations, path) ==
    Document({ <<"apiVersion", Str("argoproj.io/v1alpha1")>>,
               <<"kind", Str("Application")>>,
               <<"metadata", Map(MapOf({ <<"name", name>>,
                                         <<"annotations", Map(MapOf(annotations))>> }))>>,
               <<"spec", Map(MapOf({ <<"source",
                                       Map(MapOf({ <<"path", Str(path)>> }))>> }))>> })

(***************************************************************************)
(* Candidate extraction alone: a repository tree is walked once.           *)
(***************************************************************************)
ImageLists ==
    { <<"api", "=", "ghcr.io/org/api">>,
      <<"api", "=", "ghcr.io/org/api", ",", " ", "bogus", " ", ",",
        " ", "web", "=", "ghcr.io/org/web">>,
      <<"web", "=", "ghcr.io/org/web", "=", "x", ",",
        "api", "=", "ghcr.io/org/api", ",">> }

\* the annotations an Application may bear besides the image-list: each of
\* the four is absent, a string, or (for two of them) a number
AnnotationSets ==
    { (IF aa = "str"
         THEN { <<AnnotationKey("api", "allow-tags"), Str(<<"v", "\\d", "+">>)>> }
         ELSE IF aa = "num" THEN { <<AnnotationKey("api", "allow-tags"), Num(<<"1">>)>> }
         ELSE {})
      \cup (IF ah THEN { <<AnnotationKey("api", "helm.image-tag"), Str("image.tag")>> }
                  ELSE {})
      \cup (IF wa THEN { <<AnnotationKey("web", "allow-tags"), Str(<<"^", "v", "1", "$">>)>> }
                  ELSE {})
      \cup (IF wh = "str"
              THEN { <<AnnotationKey("web", "helm.image-tag"), Str("web.tag")>> }
              ELSE IF wh = "num" THEN { <<AnnotationKey("web", "helm.image-tag"), Num("2")>> }
              ELSE {}) :
      aa \in {"str", "num", "absent"}, ah \in BOOLEAN,
      wa \in BOOLEAN, wh \in {"str", "num", "absent"} }

FullAnnotations ==
    { <<ImageListKey, Str(<<"api", "=", "ghcr.io/org/api">>)>>,
      <<AnnotationKey("api", "allow-tags"), Str(<<"v", "\\d", "+">>)>>,
      <<AnnotationKey("api", "helm.image-tag"), Str("image.tag")>> }

DocumentUniverse ==
    { Application(name, {<<ImageListKey, Str(list)>>} \cup annotations, "apps/x") :
        name \in {Str("api"), Str("")},
        list \in ImageLists,
        annotations \in AnnotationSets }
    \cup { Application(name, FullAnnotations, "apps/x") : name \in {Num("7")} }
    \cup { Application(Str("api"),
                       {q \in FullAnnotations : q[1] # ImageListKey}
                           \cup {<<ImageListKey, Num(<<"3">>)>>}, "apps/x"),
           Application(Str("api"), {q \in FullAnnotations : q[1] # ImageListKey},
                       "apps/x"),
           Unparsable,
           Document({ <<"apiVersion", Str("apps/v1")>>, <<"kind", Str("Application")>>,
                      <<"metadata", Map(MapOf({ <<"name", Str("api")>>,
                                                <<"annotations",
                                                  Map(MapOf(FullAnnotations))>> }))>>,
                      <<"spec", Map(MapOf({ <<"source",
                                              Map(MapOf({ <<"path", Str("apps/x")>> }))>> }))>> }),
           Document({ <<"apiVersion", Str("argoproj.io/v1alpha1")>>,
                      <<"kind", Str("AppProject")>>,
                      <<"metadata", Map(MapOf({ <<"name", Str("api")>>,
                                                <<"annotations",
                                                  Map(MapOf(FullAnnotations))>> }))>>,
                      <<"spec", Map(MapOf({ <<"source",
                                              Map(MapOf({ <<"path", Str("apps/x")>> }))>> }))>> }),
           Document({ <<"apiVersion", Str("argoproj.io/v1alpha1")>>,
                      <<"kind", Str("Application")>>,
                      <<"metadata", Map(MapOf({ <<"name", Str("api")>> }))>>,
                      <<"spec", Map(MapOf({ <<"source",
                                              Map(MapOf({ <<"path", Str("apps/x")>> }))>> }))>> }),
           Document({ <<"apiVersion", Str("argoproj.io/v1alpha1")>>,
                      <<"kind", Str("Application")>>,
                      <<"metadata", Map(MapOf({ <<"name", Str("api")>>,
                                                <<"annotations",
                                                  Map(MapOf(FullAnnotations))>> }))>>,
                      <<"spec", Map(MapOf({ <<"source",
                                              Map(MapOf({ <<"path", Num("0")>> }))>> }))>> }),
           Document({ <<"helm", Map(MapOf({ <<"parameters", Num("0")>> }))>> }) }

\* the files of the trees of several entries
EntryUniverse ==
    { Entry(".yaml", TRUE, Ok(<<Application(Str("api"), FullAnnotations, "apps/api")>>)),
      Entry(".yml", TRUE, Ok(<<Unparsable>>)),
      Entry(".yaml", TRUE,
            Ok(<<Unparsable, Application(Str("web"), FullAnnotations, "apps/web")>>)),
      Entry(".yaml", TRUE, Err("stream did not contain valid UTF-8")),
      Entry(".txt", TRUE, Ok(<<Application(Str("txt"), FullAnnotations, "apps/txt")>>)),
      Entry(".yaml", FALSE, Err("Is a directory")),
      Entry(".yaml", TRUE, Ok(<<>>)) }

TreeUniverse ==
    { <<Entry(".yaml", TRUE, Ok(<<document>>))>> : document \in DocumentUniverse }
    \cup UNION { [1..n -> EntryUniverse] : n \in 0..MaxFiles }

InitExtract ==
    /\ xTree \in TreeUniverse
    /\ xOut = None
    /\ NoSvars /\ NoPvars /\ NoRvars

\* update, line 96: find_candidates(&config.repo_tmpdir)
FindCandidates ==
    /\ xOut = None
    /\ xOut' = Some(find_candidates(xTree))
    /\ UNCHANGED <<xTree, svars, pvars, rvars>>

NextExtract == FindCandidates

SpecExtract == InitExtract /\ [][NextExtract]_vars

(***************************************************************************)
(* Claims about the extraction (SpecExtract)                               *)
(***************************************************************************)
RECURSIVE Flatten(_)
Flatten(seqs) == IF seqs = <<>> THEN <<>> ELSE Head(seqs) \o Flatten(Tail(seqs))

\* the documents of the YAML files of a tree, in walk order
DocumentsOf(tree) ==
    Flatten([i \in 1..Len(tree) |->
               IF tree[i].is_file /\ tree[i].ends_with \in {".yaml", ".yml"}
                                  /\ tree[i].content.ok
               THEN tree[i].content.val ELSE <<>>])

YamlFilesReadable(tree) ==
    \A i \in 1..Len(tree) :
        (tree[i].is_file /\ tree[i].ends_with \in {".yaml", ".yml"})
            => tree[i].content.ok

Annotations(d) == d.map["metadata"].v["annotations"].v

\* an application declaration: an Argo CD Application with a name, an
\* image-list and a source path that are strings
IsDeclaration(d) ==
    /\ d.parses
    /\ is_argo_app(d.map)
    /\ as_mapping(get(d.map, "metadata")) # None
    /\ as_str(get(d.map["metadata"].v, "name")) # None
    /\ as_mapping(get(d.map["metadata"].v, "annotations")) # None
    /\ as_str(get(Annotations(d), ImageListKey)) # None
    /\ as_mapping(get(d.map, "spec")) # None
    /\ as_mapping(get(d.map["spec"].v, "source")) # None
    /\ as_str(get(d.map["spec"].v["source"].v, "path")) # None

\* an entry of the image-list has the form name=url
IsNameUrl(entry) == \E i \in 1..Len(trim(entry)) : trim(entry)[i] = "="

NameOf(entry) == split_once(trim(entry), "=")[1].name

\* both annotations of the entry's name are present as strings
HasBothAnnotations(d, entry) ==
    /\ AnnotationKey(NameOf(entry), "allow-tags") \in DOMAIN Annotations(d)
    /\ Annotations(d)[AnnotationKey(NameOf(entry), "allow-tags")].t = "str"
    /\ AnnotationKey(NameOf(entry), "helm.image-tag") \in DOMAIN Annotations(d)
    /\ Annotations(d)[AnnotationKey(NameOf(entry), "helm.image-tag")].t = "str"

\* the Candidates of a declaration: one for each entry of the list that has
\* the form name=url and both annotations, in the order of the list
CandidatesOf(d) ==
    LET entries == split(Annotations(d)[ImageListKey].v, ",")
        kept == SelectSeq(entries,
                          LAMBDA e : IsNameUrl(e) /\ HasBothAnnotations(d, e))
    IN [k \in 1..Len(kept) |->
          Candidate(d.map["metadata"].v["name"].v,
                    split_once(trim(kept[k]), "=")[1].url,
                    Annotations(d)[AnnotationKey(NameOf(kept[k]), "allow-tags")].v,
                    Annotations(d)[AnnotationKey(NameOf(kept[k]), "helm.image-tag")].v,
                    d.map["spec"].v["source"].v["path"].v)]

\* C13: the Candidates extracted from a tree are, declaration by declaration
\* and entry by entry, those of the entries that have the form name=url and
\* both annotations as strings; every other entry yields none and leaves
\* those of the other entries as they are.
C13_CandidateIffEntryComplete ==
    (xOut # None /\ xOut[1].ok) =>
        LET declarations == SelectSeq(DocumentsOf(xTree), IsDeclaration) IN
        xOut[1].val = Flatten([i \in 1..Len(declarations) |->
                                 CandidatesOf(declarations[i])])

\* a list of three entries, the middle one without "=", the first without
\* its allow-tags, was extracted: only the last entry gave a Candidate
C13_Witness ==
    /\ xOut # None /\ xOut[1].ok
    /\ Len(xTree) = 1 /\ xTree[1].content.ok /\ Len(xTree[1].content.val) = 1
    /\ IsDeclaration(xTree[1].content.val[1])
    /\ Len(split(Annotations(xTree[1].content.val[1])[ImageListKey].v, ",")) = 3
    /\ AnnotationKey("api", "allow-tags") \notin DOMAIN Annotations(xTree[1].content.val[1])
    /\ Len(xOut[1].val) = 1
    /\ xOut[1].val[1].helm_image_tag = "web.tag"

\* the tree without the documents that do not parse as a mapping
WithoutUnparsable(tree) ==
    [i \in 1..Len(tree) |->
       IF tree[i].content.ok
       THEN [tree[i] EXCEPT !.content =
               Ok(SelectSeq(tree[i].content.val, LAMBDA d : d.parses))]
       ELSE tree[i]]

\* C18: a document that does not parse as a mapping is skipped and is never
\* fatal: the extraction gives what it gives for the tree without such
\* documents, and it succeeds when every YAML file of the tree can be read.
C18_UnparsableIsSkipped ==
    xOut # None =>
        /\ xOut[1] = find_candidates(WithoutUnparsable(xTree))
        /\ YamlFilesReadable(xTree) => xOut[1].ok
        /\ xOut[1].ok =>
              \A i \in 1..Len(xTree) :
                  \A k \in 1..Len(find_candidates(<<xTree[i]>>).val) :
                      \E n \in 1..Len(xOut[1].val) :
                          xOut[1].val[n] = find_candidates(<<xTree[i]>>).val[k]

\* a tree of a file that does not parse and a file with a declaration was
\* extracted: the Candidate of the second file was returned
C18_Witness ==
    /\ xOut # None /\ xOut[1].ok
    /\ Len(xTree) = 2
    /\ xTree[1].content = Ok(<<Unparsable>>)
    /\ xTree[1].is_file /\ xTree[1].ends_with \in {".yaml", ".yml"}
    /\ Len(xOut[1].val) = 1
    /\ xOut[1].val[1].app_name = "api"

\* C19 as stated: every Candidate the extraction returns has a non-empty
\* app_name.
C19_AppNameNotEmpty ==
    (xOut # None /\ xOut[1].ok) =>
        \A n \in 1..Len(xOut[1].val) : xOut[1].val[n].app_name # ""

(***************************************************************************)
(* The update service: main, SecretGuard, root, update, add_and_commit,    *)
(* clone_or_reset.  Rocket runs the handler of each request as a task of   *)
(* its own on a multi-threaded runtime, so the requests being handled      *)
(* advance in any interleaving; all of them use the one clone in           *)
(* config.repo_tmpdir.  A tree maps each override file to its content; a   *)
(* commit is its tree and the tree of the fetched commit it descends from. *)
(***************************************************************************)
Handlers == {"h1", "h2"}

Config == [secret |-> "s3cret"]

Headers == {None, Some("s3cret"), Some("wrong")}

from_request_any_secret(secret, config) ==
    IF secret # None THEN "Success" ELSE "Unauthorized"

\* SecretGuard::from_request (the Config is always managed: main, line 51)
from_request(secret, config) ==
    IF secret = Some(config.secret) THEN "Success" ELSE "Unauthorized"

\* the manifests of the repository: a file of two documents, and an
\* Application with two images, whose overrides share one file
RepoManifests ==
    << Entry(".yml", TRUE,
             Ok(<< Document({ <<"kind", Str("ConfigMap")>> }),
                   Application(Str("web"),
                     { <<ImageListKey, Str(<<"web", "=", "ghcr.io/org/web">>)>>,
                       <<AnnotationKey("web", "allow-tags"), Str(<<"v", "\\d", "+">>)>>,
                       <<AnnotationKey("web", "helm.image-tag"), Str("image.tag")>> },
                     "apps/web") >>)),
       Entry(".yaml", TRUE,
             Ok(<< Application(Str("api"),
                     { <<ImageListKey,
                         Str(<<"api", "=", "ghcr.io/org/api", ",", " ",
                               "sidecar", "=", "ghcr.io/org/sidecar">>)>>,
                       <<AnnotationKey("api", "allow-tags"),
                         Str(<<"regexp:", "^", "v", "\\d", "+", "$">>)>>,
                       <<AnnotationKey("api", "helm.image-tag"), Str("image.tag")>>,
                       <<AnnotationKey("sidecar", "allow-tags"),
                         Str(<<"v", "\\d", "+">>)>>,
                       <<AnnotationKey("sidecar", "helm.image-tag"), Str("sidecar.tag")>> },
                     "apps/api") >>)) >>

\* the candidates find_candidates extracts from the manifests of the repository
RepoCandidates == find_candidates(RepoManifests).val

\* update_tag_for_candidate, lines 150-152
overrides_path(candidate) == <<candidate.path, candidate.app_name>>

Files == {overrides_path(RepoCandidates[i]) : i \in 1..Len(RepoCandidates)}

\* what the registry may answer to list_tags
RegistryAnswers ==
    { Err("registry"),
      Ok(<<>>),
      Ok(<< <<"v", "1">> >>),
      Ok(<< <<"v", "2">>, <<"v", "1">>, <<"l", "a", "t", "e", "s", "t">> >>),
      Ok(<< <<"l", "a", "t", "e", "s", "t">> >>) }

\* a registry answered with a list none of whose tags matches the
\* candidate's allow_tags
NoTagMatches(candidate, listing) ==
    /\ listing.ok
    /\ \A i \in 1..Len(listing.val) :
          ~is_match(Regex_new(trim_start_matches(candidate.allow_tags, "regexp:")).val,
                    listing.val[i])

\* the trees origin's main may hold when the service starts
InitTrees ==
    { [f \in Files |->
         IF f = overrides_path(RepoCandidates[1]) THEN t.web ELSE t.api] :
      t \in { [api |-> Some(<<CommentLine,
                              ParamLine(Parameter("image.tag", <<"v", "1">>, FALSE)),
                              ParamLine(Parameter("sidecar.tag", <<"v", "1">>, FALSE))>>),
               web |-> None],
              [api |-> Some(<<BadLine>>),
               web |-> Some(<<ParamLine(Parameter("image.tag", <<"v", "1">>, TRUE))>>)] } }

CommitOf(tree, base) == [tree |-> tree, base |-> base]

\* main: clone_or_reset has succeeded, and rocket is launched
Init ==
    /\ remote \in InitTrees
    /\ fetchHead = remote
    /\ head = CommitOf(remote, remote)
    /\ wc = remote
    /\ pc = [r \in Handlers |-> "idle"]
    /\ hdr = [r \in Handlers |-> None]
    /\ status = [r \in Handlers |-> "none"]
    /\ cands = [r \in Handlers |-> <<>>]
    /\ tag = [r \in Handlers |-> <<>>]
    /\ doc = [r \in Handlers |-> <<>>]
    /\ has_changed = [r \in Handlers |-> FALSE]
    /\ resolved = [r \in Handlers |-> <<>>]
    /\ triggers = 0
    /\ extracted = [r \in Handlers |-> -1]
    /\ attempted = [r \in Handlers |-> 0]
    /\ wrote = [r \in Handlers |-> 0]
    /\ gitops = [r \in Handlers |-> {}]
    /\ nomatch = [r \in Handlers |-> FALSE]
    /\ NoPvars /\ NoRvars /\ NoXvars

NoHistory(r) ==
    /\ extracted' = [extracted EXCEPT ![r] = -1]
    /\ attempted' = [attempted EXCEPT ![r] = 0]
    /\ wrote' = [wrote EXCEPT ![r] = 0]
    /\ gitops' = [gitops EXCEPT ![r] = {}]
    /\ nomatch' = [nomatch EXCEPT ![r] = FALSE]

End_error_is_fatal(r, result) ==
    /\ pc' = [pc EXCEPT ![r] = IF result = "err" THEN "panicked" ELSE "idle"]
    /\ status' = [status EXCEPT ![r] = result]
    /\ cands' = [cands EXCEPT ![r] = <<>>]
    /\ tag' = [tag EXCEPT ![r] = <<>>]
    /\ doc' = [doc EXCEPT ![r] = <<>>]
    /\ has_changed' = [has_changed EXCEPT ![r] = FALSE]
    /\ resolved' = [resolved EXCEPT ![r] = <<>>]

\* root returns: update returned Ok or Err (root logs the error), and the
\* locals of update are dropped
End(r, result) ==
    /\ pc' = [pc EXCEPT ![r] = "idle"]
    /\ status' = [status EXCEPT ![r] = result]
    /\ cands' = [cands EXCEPT ![r] = <<>>]
    /\ tag' = [tag EXCEPT ![r] = <<>>]
    /\ doc' = [doc EXCEPT ![r] = <<>>]
    /\ has_changed' = [has_changed EXCEPT ![r] = FALSE]
    /\ resolved' = [resolved EXCEPT ![r] = <<>>]

Goto(r, label) == pc' = [pc EXCEPT ![r] = label]

\* a request arrives; the guard runs, and root starts unless it rejects
Request(r) ==
    /\ pc[r] = "idle"
    /\ \E secret \in Headers :
        /\ hdr' = [hdr EXCEPT ![r] = secret]
        /\ IF from_request(secret, Config) = "Success"
           THEN /\ triggers < MaxTriggers
                /\ triggers' = triggers + 1
                /\ Goto(r, "sync")
                /\ status' = [status EXCEPT ![r] = "running"]
           ELSE /\ status' = [status EXCEPT ![r] = "unauthorized"]
                /\ UNCHANGED <<pc, triggers>>
    /\ NoHistory(r)
    /\ UNCHANGED <<cands, tag, doc, has_changed, resolved, wc, head, fetchHead, remote,
                   pvars, rvars, xvars>>

\* clone_or_reset, lines 339-351: init, find or add origin, connect, fetch main
Fetch(r) ==
    /\ pc[r] = "sync"
    /\ fetchHead' = remote
    /\ gitops' = [gitops EXCEPT ![r] = @ \cup {"fetch"}]
    /\ Goto(r, "reset")
    /\ UNCHANGED <<hdr, status, cands, tag, doc, has_changed, resolved, wc, head, remote,
                   triggers, extracted, attempted, wrote, nomatch, pvars, rvars, xvars>>

reset_soft(fetched, workdir, index) ==
    [wc |-> workdir, head |-> CommitOf(fetched, fetched)]

\* Repository::reset(FETCH_HEAD, ResetType::Hard): HEAD, the index and the
\* working directory become those of the fetched commit; a file that neither
\* the index nor the fetched commit holds (an untracked file) is left alone
reset_hard(fetched, workdir, index) ==
    [wc |-> [f \in Files |->
               IF fetched[f] = None /\ index[f] = None THEN workdir[f]
               ELSE fetched[f]],
     head |-> CommitOf(fetched, fetched)]

\* clone_or_reset, lines 353-358 (the index holds the files of HEAD's tree)
Reset(r) ==
    /\ pc[r] = "reset"
    /\ wc' = reset_hard(fetchHead, wc, head.tree).wc
    /\ head' = reset_hard(fetchHead, wc, head.tree).head
    /\ gitops' = [gitops EXCEPT ![r] = @ \cup {"reset"}]
    /\ Goto(r, "extract")
    /\ UNCHANGED <<hdr, status, cands, tag, doc, has_changed, resolved, fetchHead, remote,
                   triggers, extracted, attempted, wrote, nomatch, pvars, rvars, xvars>>

SyncFail_is_ignored(r) ==
    /\ pc[r] \in {"sync", "reset"}
    /\ pc' = [pc EXCEPT ![r] = "extract"]
    /\ UNCHANGED <<hdr, status, cands, tag, doc, has_changed, resolved, wc, head, fetchHead,
                   remote, triggers, extracted, attempted, wrote, gitops, nomatch,
                   pvars, rvars, xvars>>

\* clone_or_reset fails (authentication, network, a corrupt repository)
SyncFail(r) ==
    /\ pc[r] \in {"sync", "reset"}
    /\ End(r, "err")
    /\ UNCHANGED <<hdr, wc, head, fetchHead, remote, triggers, extracted,
                   attempted, wrote, gitops, nomatch, pvars, rvars, xvars>>

NextCandidate(cs) == IF cs = <<>> THEN "check" ELSE "resolve"

\* update, lines 95-97
Extract(r) ==
    /\ pc[r] = "extract"
    /\ cands' = [cands EXCEPT ![r] = RepoCandidates]
    /\ extracted' = [extracted EXCEPT ![r] = Len(RepoCandidates)]
    /\ has_changed' = [has_changed EXCEPT ![r] = FALSE]
    /\ Goto(r, NextCandidate(RepoCandidates))
    /\ UNCHANGED <<hdr, status, tag, doc, resolved, wc, head, fetchHead, remote, triggers,
                   attempted, wrote, gitops, nomatch, pvars, rvars, xvars>>

\* find_candidates fails (a YAML file cannot be read)
ExtractFail(r) ==
    /\ pc[r] = "extract"
    /\ End(r, "err")
    /\ UNCHANGED <<hdr, wc, head, fetchHead, remote, triggers, extracted,
                   attempted, wrote, gitops, nomatch, pvars, rvars, xvars>>

\* update, lines 99-101: get_latest_tag_for_candidate(...).await?
ResolveTag(r) ==
    /\ pc[r] = "resolve"
    /\ attempted' = [attempted EXCEPT ![r] = @ + 1]
    /\ \E listing \in RegistryAnswers :
        LET res == get_latest_tag_for_candidate(Head(cands[r]).allow_tags, listing) IN
        /\ nomatch' = [nomatch EXCEPT ![r] = NoTagMatches(Head(cands[r]), listing)]
        /\ IF res.ok
           THEN /\ tag' = [tag EXCEPT ![r] = res.val]
                /\ Goto(r, "patch")
                /\ resolved' = [resolved EXCEPT ![r] = Append(@, res.val)]
                /\ UNCHANGED <<status, cands, doc, has_changed>>
           ELSE End(r, "err")
    /\ UNCHANGED <<hdr, wc, head, fetchHead, remote, triggers, extracted,
                   wrote, gitops, pvars, rvars, xvars>>

\* update, line 102, update_tag_for_candidate lines 150-157: the file is read
PatchRead(r) ==
    /\ pc[r] = "patch"
    /\ LET current_overrides == load_overrides(wc[overrides_path(Head(cands[r]))]) IN
        IF current_overrides.ok
        THEN /\ doc' = [doc EXCEPT ![r] = current_overrides.val]
             /\ Goto(r, "write")
             /\ UNCHANGED <<status, cands, tag, has_changed, resolved>>
        ELSE End(r, "err")
    /\ UNCHANGED <<hdr, wc, head, fetchHead, remote, triggers, extracted,
                   attempted, wrote, gitops, nomatch, pvars, rvars, xvars>>

\* read_to_string fails
PatchIoFail(r) ==
    /\ pc[r] = "patch"
    /\ End(r, "err")
    /\ UNCHANGED <<hdr, wc, head, fetchHead, remote, triggers, extracted,
                   attempted, wrote, gitops, nomatch, pvars, rvars, xvars>>

\* update_tag_for_candidate, lines 159-173, and update's has_changed |= ...
PatchWrite(r) ==
    /\ pc[r] = "write"
    /\ LET path == overrides_path(Head(cands[r]))
           applied == apply_tag(doc[r], Head(cands[r]), tag[r])
           stored == store_overrides(wc[path], applied)
       IN /\ wc' = [wc EXCEPT ![path] = stored.file]
          /\ wrote' = [wrote EXCEPT ![r] = IF stored.wrote THEN @ + 1 ELSE @]
          /\ has_changed' = [has_changed EXCEPT ![r] = @ \/ applied.has_changed]
    /\ cands' = [cands EXCEPT ![r] = Tail(@)]
    /\ tag' = [tag EXCEPT ![r] = <<>>]
    /\ doc' = [doc EXCEPT ![r] = <<>>]
    /\ Goto(r, NextCandidate(Tail(cands[r])))
    /\ UNCHANGED <<hdr, status, resolved, head, fetchHead, remote, triggers,
                   extracted, attempted, gitops, nomatch, pvars, rvars, xvars>>

Check_always_commits(r) ==
    /\ pc[r] = "check"
    /\ Goto(r, "commit")
    /\ UNCHANGED <<hdr, status, cands, tag, doc, has_changed, resolved, wc, head, fetchHead,
                   remote, triggers, extracted, attempted, wrote, gitops,
                   nomatch, pvars, rvars, xvars>>

\* update, lines 105-108
Check(r) ==
    /\ pc[r] = "check"
    /\ IF ~has_changed[r]
       THEN End(r, "ok")
       ELSE /\ Goto(r, "commit")
            /\ UNCHANGED <<status, cands, tag, doc, has_changed, resolved>>
    /\ UNCHANGED <<hdr, wc, head, fetchHead, remote, triggers, extracted,
                   attempted, wrote, gitops, nomatch, pvars, rvars, xvars>>

\* add_and_commit: the whole working directory is staged and committed on HEAD
Commit(r) ==
    /\ pc[r] = "commit"
    /\ head' = CommitOf(wc, head.base)
    /\ gitops' = [gitops EXCEPT ![r] = @ \cup {"commit"}]
    /\ Goto(r, "push")
    /\ UNCHANGED <<hdr, status, cands, tag, doc, has_changed, resolved, wc, fetchHead,
                   remote, triggers, extracted, attempted, wrote, nomatch,
                   pvars, rvars, xvars>>

\* add_and_commit fails
CommitFail(r) ==
    /\ pc[r] = "commit"
    /\ gitops' = [gitops EXCEPT ![r] = @ \cup {"commit"}]
    /\ End(r, "err")
    /\ UNCHANGED <<hdr, wc, head, fetchHead, remote, triggers, extracted,
                   attempted, wrote, nomatch, pvars, rvars, xvars>>

\* update, lines 111-125: refs/heads/main is pushed; origin accepts a
\* fast-forward
Push(r) ==
    /\ pc[r] = "push"
    /\ head.base = remote
    /\ remote' = head.tree
    /\ gitops' = [gitops EXCEPT ![r] = @ \cup {"push"}]
    /\ End(r, "ok")
    /\ UNCHANGED <<hdr, wc, head, fetchHead, triggers, extracted, attempted,
                   wrote, nomatch, pvars, rvars, xvars>>

\* the push fails (authentication, network, not a fast-forward)
PushFail(r) ==
    /\ pc[r] = "push"
    /\ gitops' = [gitops EXCEPT ![r] = @ \cup {"push"}]
    /\ End(r, "err")
    /\ UNCHANGED <<hdr, wc, head, fetchHead, remote, triggers, extracted,
                   attempted, wrote, nomatch, pvars, rvars, xvars>>

Next ==
    \E r \in Handlers :
        \/ Request(r)
        \/ Fetch(r)
        \/ Reset(r)
        \/ SyncFail(r)
        \/ Extract(r)
        \/ ExtractFail(r)
        \/ ResolveTag(r)
        \/ PatchRead(r)
        \/ PatchIoFail(r)
        \/ PatchWrite(r)
        \/ Check(r)
        \/ Commit(r)
        \/ CommitFail(r)
        \/ Push(r)
        \/ PushFail(r)

Spec == Init /\ [][Next]_vars

(***************************************************************************)
(* The same service when the triggers arrive one after the other: a        *)
(* request is made only while no run is in progress.                       *)
(***************************************************************************)
RequestWhenIdle(r) ==
    /\ \A q \in Handlers : pc[q] = "idle"
    /\ Request(r)

NextSeq ==
    \E r \in Handlers :
        \/ RequestWhenIdle(r)
        \/ Fetch(r)
        \/ Reset(r)
        \/ SyncFail(r)
        \/ Extract(r)
        \/ ExtractFail(r)
        \/ ResolveTag(r)
        \/ PatchRead(r)
        \/ PatchIoFail(r)
        \/ PatchWrite(r)
        \/ Check(r)
        \/ Commit(r)
        \/ CommitFail(r)
        \/ Push(r)
        \/ PushFail(r)

SpecSeq == Init /\ [][NextSeq]_vars

(***************************************************************************)
(* Claims about the update run (Spec, SpecSeq)                             *)
(***************************************************************************)
Finished(r) == pc[r] = "idle" /\ status[r] \in {"ok", "err"}

\* C1 as stated: in a run that synchronized and extracted its candidates,
\* a failure for one candidate does not keep the others from being
\* processed: when the run ends, every extracted candidate has been resolved.
C1_FailureSkipsOnlyItsCandidate ==
    \A r \in Handlers :
        (Finished(r) /\ extracted[r] >= 0) => attempted[r] = extracted[r]

\* C2 as stated: at no time are two runs in progress on the clone.
C2_RunsAreSerialized ==
    Cardinality({r \in Handlers : pc[r] # "idle"}) <= 1

\* C3: a run that is about to commit or push, or has attempted either, has
\* rewritten at least one override file; a run whose patches all returned
\* changed = false makes no git write after its sync.
C3_GitWriteOnlyAfterChange ==
    \A r \in Handlers :
        (pc[r] \in {"commit", "push"} \/ gitops[r] \cap {"commit", "push"} # {})
            => wrote[r] > 0

\* a run processed all its candidates, changed nothing and ended without a
\* commit or a push
C3_Witness ==
    \E r \in Handlers :
        /\ Finished(r) /\ status[r] = "ok"
        /\ attempted[r] = Len(RepoCandidates)
        /\ wrote[r] = 0
        /\ gitops[r] = {"fetch", "reset"}

\* C4 as stated: a run that rewrote an override file does not end before it
\* has attempted the commit.
C4_ChangedRunReachesCommitPush ==
    \A r \in Handlers :
        (Finished(r) /\ wrote[r] > 0) => "commit" \in gitops[r]

\* C5: a request is admitted if and only if its X-Secret header equals the
\* configured secret; a request with another or no secret is answered
\* unauthorized and no git operation, extraction, registry query or file
\* write is made for it.
C5_GuardGrantsIffSecretEqual ==
    \A r \in Handlers :
        /\ hdr[r] = Some(Config.secret) => status[r] \in {"running", "ok", "err"}
        /\ hdr[r] # Some(Config.secret) =>
              /\ pc[r] = "idle"
              /\ status[r] \in {"none", "unauthorized"}
              /\ gitops[r] = {}
              /\ extracted[r] = -1
              /\ attempted[r] = 0
              /\ wrote[r] = 0

\* a request with a wrong secret and one without a secret were rejected
C5_Witness ==
    \E r, q \in Handlers :
        /\ hdr[r] = Some("wrong") /\ status[r] = "unauthorized"
        /\ hdr[q] = None /\ status[q] = "unauthorized"

C14_SyncOrExtractFailureEndsRun ==
    \A r \in Handlers :
        /\ (Finished(r) /\ "reset" \notin gitops[r]) =>
              /\ status[r] = "err"
              /\ extracted[r] = -1
              /\ attempted[r] = 0 /\ ~nomatch[r]
              /\ wrote[r] = 0
              /\ gitops[r] \subseteq {"fetch"}
        /\ (Finished(r) /\ "reset" \in gitops[r] /\ extracted[r] = -1) =>
              /\ status[r] = "err"
              /\ attempted[r] = 0 /\ ~nomatch[r]
              /\ wrote[r] = 0
              /\ gitops[r] = {"fetch", "reset"}

\* a run ended after its fetch when the reset failed, and another after its
\* sync when the extraction failed
C14_Witness ==
    \E r, q \in Handlers :
        /\ Finished(r) /\ gitops[r] = {"fetch"}
        /\ Finished(q) /\ gitops[q] = {"fetch", "reset"} /\ extracted[q] = -1

\* the last candidate of the extracted list that patches the same parameter
\* of the same file as candidate i
LastFor(i) ==
    \A j \in (i + 1)..Len(RepoCandidates) :
        \/ overrides_path(RepoCandidates[j]) # overrides_path(RepoCandidates[i])
        \/ RepoCandidates[j].helm_image_tag # RepoCandidates[i].helm_image_tag

\* C17 as stated: when a run has patched all its candidates, each override
\* file carries the update of every candidate that shares it: every entry
\* named as a candidate's parameter holds the tag resolved for it.
C17_NoUpdateLost ==
    \A r \in Handlers :
        pc[r] = "check" =>
            \A i \in 1..Len(RepoCandidates) :
                LastFor(i) =>
                    LET file == wc[overrides_path(RepoCandidates[i])] IN
                    \A k \in 1..Len(Entries(file)) :
                        Entries(file)[k].name = RepoCandidates[i].helm_image_tag
                            => Entries(file)[k].value = resolved[r][i]

\* C20: a run that ended in error has returned and kept nothing: the handler
\* is idle and its locals are dropped; a new request with the right secret
\* can start; a run starts at the sync with no candidate and a has_changed
\* of false, and resolves the first candidate of the list it extracted itself.
C20_ErrorLeavesServiceReady ==
    \A r \in Handlers :
        /\ status[r] = "err" =>
              /\ pc[r] = "idle"
              /\ cands[r] = <<>> /\ tag[r] = <<>> /\ doc[r] = <<>>
              /\ ~has_changed[r]
              /\ triggers < MaxTriggers =>
                    ENABLED (Request(r) /\ pc'[r] = "sync")
        /\ pc[r] \in {"sync", "reset", "extract"} =>
              /\ cands[r] = <<>> /\ ~has_changed[r]
              /\ extracted[r] = -1 /\ attempted[r] = 0 /\ ~nomatch[r]
              /\ wrote[r] = 0
        /\ (pc[r] = "resolve" /\ attempted[r] = 0) =>
              /\ cands[r] = RepoCandidates
              /\ ~has_changed[r]
              /\ gitops[r] = {"fetch", "reset"}

\* after runs that ended in error, one having rewritten a file and one at
\* its push, a new run has extracted its candidates and is about to resolve
\* the first
C20_Witness ==
    \E r, q \in Handlers :
        /\ r # q
        /\ Finished(q) /\ status[q] = "err" /\ wrote[q] > 0
        /\ triggers = MaxTriggers
        /\ pc[r] = "resolve" /\ attempted[r] = 0

====
